---- MODULE Spec2Model ----
(***************************************************************************)
(* Model of src/app.py: the golf score dashboard.  load_data reads a wide  *)
(* table (one row per round, one column per player), melts it into long   *)
(* records, cleans and sorts them; the script then filters the selected    *)
(* player's records, numbers them 1..N and computes statistics, a          *)
(* best-5 handicap and a linear regression.                                *)
(*                                                                         *)
(* Strings are sequences of one-character strings.  Floating point values  *)
(* are modelled exactly, as fractions [n, d] of integers.                  *)
(***************************************************************************)
EXTENDS Integers, Sequences, FiniteSets, TLC

VARIABLES
    source,           \* what FILE_PATH holds: "excel", "csv", "missing", "unreadable"
    raw,              \* the table pd.read_excel / pd.read_csv returns
    cache,            \* the value st.cache_data memoizes for load_data
    df,               \* the script's df (line 77)
    widget,           \* the selectbox's session value (None until the user picks)
    selected_player,  \* line 82
    player_df,        \* line 85, with Seq_Num from line 92
    result,           \* the statistics of lines 95-120
    outcome,          \* how the run ended: "none" or the error shown before st.stop()
    pc,               \* position of the script run
    shown             \* history: the first result displayed for each player

vars == <<source, raw, cache, df, widget, selected_player, player_df, result,
          outcome, pc, shown>>

-----------------------------------------------------------------------------
(* Bounds and input alphabets *)

MaxRows == 2
MaxLabelLen == 3
MaxStatRows == 6

STANDARD_PAR == 72

PlayerNames == <<"PlayerA", "PlayerB">>

None == "None"

DigitChars == <<"0", "1", "2", "3", "4", "5", "6", "7", "8", "9">>

Digits == {DigitChars[i] : i \in 1..10}

DigitVal(c) == (CHOOSE i \in 1..10 : DigitChars[i] = c) - 1

\* the character U+D68C ("hoe", the counter suffix of "1hoe", "2hoe"), written in ASCII
HOE == "hoe"

\* characters a round label is drawn from when labels are enumerated
LabelAlphabet == {"1", "2", HOE, "R", " ", "."}

\* the round labels of the whole-program specification
\* ("1hoe", "3hoe", "R1", and the digit-free two-character label "bo-ryu")
Labels == { <<"1", HOE>>, <<"3", HOE>>, <<"R", "1">>, <<"bo", "ryu">> }

Num(x) == [isnum |-> TRUE, v |-> x]

DNF == [isnum |-> FALSE, v |-> 0]

Cells == {Num(80), DNF}

ScoreVals == {71, 72, 74}

-----------------------------------------------------------------------------
(* Generic helpers *)

RECURSIVE SumSeq(_)
SumSeq(s) == IF s = <<>> THEN 0 ELSE Head(s) + SumSeq(Tail(s))

RECURSIVE Pow10(_)
Pow10(k) == IF k = 0 THEN 1 ELSE 10 * Pow10(k - 1)

Range(s) == {s[i] : i \in 1..Len(s)}

SeqsUpTo(S, n) == UNION {[1..k -> S] : k \in 0..n}

-----------------------------------------------------------------------------
(* load_data, lines 55-59: Round_Num from the round label *)

NaN == [nan |-> TRUE, digits |-> 0, scale |-> 1]

\* .str.replace(HOE, ''): every occurrence of the suffix character is removed
StrReplace(s) == SelectSeq(s, LAMBDA c : c # HOE)

\* .str.strip(): leading and trailing whitespace is removed
RECURSIVE LStrip(_)
LStrip(s) == IF s # <<>> /\ Head(s) = " " THEN LStrip(Tail(s)) ELSE s

RECURSIVE RStrip(_)
RStrip(s) ==
    IF s # <<>> /\ s[Len(s)] = " " THEN RStrip(SubSeq(s, 1, Len(s) - 1)) ELSE s

StrStrip(s) == RStrip(LStrip(s))

RECURSIVE DigitsValue(_)
DigitsValue(s) ==
    IF s = <<>> THEN 0
    ELSE 10 * DigitsValue(SubSeq(s, 1, Len(s) - 1)) + DigitVal(s[Len(s)])

\* pd.to_numeric(..., errors='coerce') on a string: an unsigned decimal numeral
\* (digits with at most one '.', at least one digit) is its value, given as
\* digits / scale; anything else, the empty string included, is NaN
ToNumericStr(s) ==
    LET dots == SelectSeq(s, LAMBDA c : c = ".")
        ds   == SelectSeq(s, LAMBDA c : c \in Digits)
        dot  == CHOOSE i \in 1..Len(s) : s[i] = "."
    IN  IF \/ ds = <<>>
           \/ Len(dots) > 1
           \/ \E i \in 1..Len(s) : s[i] \notin Digits \cup {"."}
        THEN NaN
        ELSE [nan    |-> FALSE,
              digits |-> DigitsValue(ds),
              scale  |-> IF dots = <<>> THEN 1 ELSE Pow10(Len(s) - dot)]

\* lines 56-59
RoundNumOf(label) == ToNumericStr(StrStrip(StrReplace(label)))

\* line 66: .astype(int) truncates
AsInt(f) == f.digits \div f.scale

\* line 62: pd.to_numeric(df_long['Score'], errors='coerce')
ToNumericScore(cell) == cell.isnum

-----------------------------------------------------------------------------
(* load_data, lines 45-53: wide -> long *)

NumPlayers(t) == IF t.ncols = 0 THEN 0 ELSE t.ncols - 1

NumRows(t) == Len(t.rows)

\* df.melt: one record per (player column, row), column by column, with the
\* fresh index 0, 1, 2, ...
Melt(t) ==
    LET P == NumPlayers(t)
        R == NumRows(t)
    IN  [k \in 1..(P * R) |->
            LET p == ((k - 1) \div R) + 1
                r == ((k - 1) % R) + 1
            IN  [idx         |-> k - 1,
                 Round_Label |-> t.rows[r].label,
                 Player      |-> PlayerNames[p],
                 Score       |-> t.rows[r].cells[p]]]

\* lines 56-66: Round_Num and Score made numeric, rows lacking either dropped
Valid(rec) == ~RoundNumOf(rec.Round_Label).nan /\ ToNumericScore(rec.Score)

DropNa(long) == SelectSeq(long, Valid)

Cleaned(long) ==
    LET kept == DropNa(long)
    IN  [k \in 1..Len(kept) |->
            [idx         |-> kept[k].idx,
             Round_Label |-> kept[k].Round_Label,
             Player      |-> kept[k].Player,
             Score       |-> kept[k].Score.v,
             Round_Num   |-> AsInt(RoundNumOf(kept[k].Round_Label))]]

-----------------------------------------------------------------------------
(* load_data, line 67: sort_values(by='Round_Num') *)

\* every arrangement of the positions S of recs in ascending Round_Num order
RECURSIVE Arrangements(_, _)
Arrangements(recs, S) ==
    IF S = {} THEN {<<>>}
    ELSE LET least == {m \in S : \A o \in S : recs[m].Round_Num <= recs[o].Round_Num}
         IN  UNION { {<<m>> \o t : t \in Arrangements(recs, S \ {m})} : m \in least }

\* variant: the sort of line 67 left out
SortSkipped(recs) == {recs}

\* sort_values with the default kind ('quicksort') orders by Round_Num and
\* promises nothing about ties: every ascending arrangement is a possible outcome
SortValues(recs) ==
    { [k \in 1..Len(recs) |-> recs[a[k]]] : a \in Arrangements(recs, 1..Len(recs)) }

-----------------------------------------------------------------------------
(* The script, lines 78-120 *)

\* line 78: df['Player'].unique(), in order of first appearance
RECURSIVE Unique(_)
Unique(s) ==
    IF s = <<>> THEN <<>>
    ELSE LET init == Unique(SubSeq(s, 1, Len(s) - 1))
             last == s[Len(s)]
         IN  IF last \in Range(init) THEN init ELSE Append(init, last)

PlayersOf(d) == Unique([k \in 1..Len(d) |-> d[k].Player])

\* line 85: df[df['Player'] == selected_player]
PlayerFilter(d, p) == SelectSeq(d, LAMBDA rec : rec.Player = p)

\* variant: the filter assigned back to df (no separate copy)
DfFiltered(d, p) == PlayerFilter(d, p)

\* line 85: .copy() makes player_df a frame of its own; df stays as it was
DfAfterCopy(d, p) == d

\* variant: the guard of line 87 with 1 in place of 2
NoRounds(pdf) == Len(pdf) < 1

\* line 87
TooFewRounds(pdf) == Len(pdf) < 2

\* variant: range(len(player_df)), counting from 0
SeqRangeFromZero(n) == [k \in 1..n |-> k - 1]

\* line 92: range(1, len(player_df) + 1)
SeqRange(n) == [k \in 1..n |-> k]

WithSeqNum(pdf) ==
    [k \in 1..Len(pdf) |->
        [idx         |-> pdf[k].idx,
         Round_Label |-> pdf[k].Round_Label,
         Player      |-> pdf[k].Player,
         Score       |-> pdf[k].Score,
         Round_Num   |-> pdf[k].Round_Num,
         Seq_Num     |-> SeqRange(Len(pdf))[k]]]

ScoresOf(pdf) == [k \in 1..Len(pdf) |-> pdf[k].Score]

SeqNumsOf(pdf) == [k \in 1..Len(pdf) |-> pdf[k].Seq_Num]

\* lines 95-97
Mean(s) == [n |-> SumSeq(s), d |-> Len(s)]

MinOf(s) == CHOOSE x \in Range(s) : \A y \in Range(s) : x <= y

MaxOf(s) == CHOOSE x \in Range(s) : \A y \in Range(s) : x >= y

\* line 102: sort_values(ascending=True) on the scores
RECURSIVE Insert(_, _)
Insert(x, s) ==
    IF s = <<>> THEN <<x>>
    ELSE IF x <= Head(s) THEN <<x>> \o s
    ELSE <<Head(s)>> \o Insert(x, Tail(s))

RECURSIVE SortAscending(_)
SortAscending(s) ==
    IF s = <<>> THEN <<>> ELSE Insert(Head(s), SortAscending(Tail(s)))

\* line 105: min(5, total_rounds)
NumBestRounds(n) == IF n < 5 THEN n ELSE 5

\* variant: the scores sorted descending, so that the highest are taken
WorstScores(s) ==
    LET asc == SortAscending(s)
    IN  [k \in 1..NumBestRounds(Len(s)) |-> asc[Len(s) + 1 - k]]

\* lines 102-109
BestScores(s) == SubSeq(SortAscending(s), 1, NumBestRounds(Len(s)))

\* variant: no guard for a series without variance
RSquaredUnguarded(sxx, syy, sxy) == [n |-> sxy * sxy, d |-> sxx * syy]

\* linregress: r is 0 when either series has no variance, else
\* ssxym / sqrt(ssxm * ssym); its square is returned as a fraction
RSquared(sxx, syy, sxy) ==
    IF sxx = 0 \/ syy = 0 THEN [n |-> 0, d |-> 1]
    ELSE [n |-> sxy * sxy, d |-> sxx * syy]

Sign(x) == IF x > 0 THEN 1 ELSE IF x < 0 THEN -1 ELSE 0

\* lines 112-114: linregress(x, y), with the sums scaled by n (resp. n * n)
LinRegress(x, y) ==
    LET n   == Len(x)
        sx  == SumSeq(x)
        sy  == SumSeq(y)
        sxx == n * SumSeq([k \in 1..n |-> x[k] * x[k]]) - sx * sx
        syy == n * SumSeq([k \in 1..n |-> y[k] * y[k]]) - sy * sy
        sxy == n * SumSeq([k \in 1..n |-> x[k] * y[k]]) - sx * sy
    IN  [slope     |-> [n |-> sxy, d |-> sxx],
         intercept |-> [n |-> sy * sxx - sxy * sx, d |-> n * sxx],
         r_sign    |-> IF sxx = 0 \/ syy = 0 THEN 0 ELSE Sign(sxy),
         r_squared |-> RSquared(sxx, syy, sxy)]

NoResult == [total_rounds |-> 0]

\* lines 95-120
Analytics(pdf) ==
    LET y   == ScoresOf(pdf)
        fit == LinRegress(SeqNumsOf(pdf), y)
        n   == Len(pdf)
    IN  [avg_score           |-> Mean(y),
         min_score           |-> MinOf(y),
         max_score           |-> MaxOf(y),
         total_rounds        |-> n,
         handicap_score_calc |-> Mean(BestScores(y)),
         slope               |-> fit.slope,
         intercept           |-> fit.intercept,
         r_sign              |-> fit.r_sign,
         r_squared           |-> fit.r_squared,
         expected_change     |-> [n |-> fit.slope.n * n, d |-> fit.slope.d],
         handicap_over_par   |-> [n |-> SumSeq(y) - STANDARD_PAR * n, d |-> n]]

-----------------------------------------------------------------------------
(* Inputs *)

EmptyTable == [ncols |-> 0, rows |-> <<>>]

RowsOf(P, labels, cells) == [label : labels, cells : [1..P -> cells]]

\* tables with a label column and 0..Len(PlayerNames) player columns, and the
\* table without any column
Tables ==
    {EmptyTable} \cup
    UNION { {[ncols |-> P + 1, rows |-> rs] : rs \in SeqsUpTo(RowsOf(P, Labels, Cells), MaxRows)}
            : P \in 0..Len(PlayerNames) }

\* one player, one row, every label over LabelAlphabet
LabelTables ==
    { [ncols |-> 2, rows |-> <<[label |-> l, cells |-> <<Num(80)>>]>>]
      : l \in SeqsUpTo(LabelAlphabet, MaxLabelLen) }

\* one player, rounds "1hoe", "2hoe", ... in order, every score series
StatTables ==
    UNION { {[ncols |-> 2,
              rows  |-> [k \in 1..R |-> [label |-> <<DigitChars[k + 1], HOE>>,
                                         cells |-> <<Num(sc[k])>>]]]
             : sc \in [1..R -> ScoreVals]}
            : R \in 0..MaxStatRows }

Start(src, t) ==
    /\ source = src
    /\ raw = t
    /\ cache = <<>>
    /\ df = <<>>
    /\ widget = None
    /\ selected_player = None
    /\ player_df = <<>>
    /\ result = NoResult
    /\ outcome = "none"
    /\ pc = "load"
    /\ shown = [p \in Range(PlayerNames) |-> NoResult]

Init ==
    \E src \in {"excel", "csv", "missing", "unreadable"} :
        \E t \in (IF src \in {"excel", "csv"} THEN Tables ELSE {EmptyTable}) :
            Start(src, t)

InitLabel == \E t \in LabelTables : Start("excel", t)

InitStats == \E t \in StatTables : Start("excel", t)

-----------------------------------------------------------------------------
(* Actions *)

Stop(why) ==
    /\ outcome' = why
    /\ pc' = "stopped"

\* lines 18-73, first call (cache miss)
LoadData ==
    /\ pc = "load"
    /\ IF source = "missing"
       THEN Stop("SourceNotFoundError") /\ UNCHANGED <<df, cache>>
       ELSE IF source = "unreadable"
       THEN Stop("SourceParseError") /\ UNCHANGED <<df, cache>>
       ELSE IF raw.ncols = 0
       THEN \* df.columns[0] raises IndexError, caught at line 71
            Stop("MalformedInputError") /\ UNCHANGED <<df, cache>>
       ELSE \E sorted \in SortValues(Cleaned(Melt(raw))) :
                /\ df' = sorted
                /\ cache' = sorted
                /\ pc' = "select"
                /\ outcome' = "none"
    /\ UNCHANGED <<source, raw, widget, selected_player, player_df, result, shown>>

\* lines 78-82: the selectbox gives the user's pick, by default the first option
SelectPlayer ==
    /\ pc = "select"
    /\ LET players == PlayersOf(df)
       IN  selected_player' =
               IF widget # None THEN widget
               ELSE IF players = <<>> THEN None ELSE players[1]
    /\ pc' = "analyze"
    /\ UNCHANGED <<source, raw, cache, df, widget, player_df, result, outcome, shown>>

\* lines 85-120
Analyze ==
    /\ pc = "analyze"
    /\ LET pdf == PlayerFilter(df, selected_player)
       IN  /\ df' = DfAfterCopy(df, selected_player)
           /\ IF TooFewRounds(pdf)
              THEN /\ Stop("InsufficientDataError")
                   /\ player_df' = pdf
                   /\ UNCHANGED <<result, shown>>
              ELSE /\ player_df' = WithSeqNum(pdf)
                   /\ result' = Analytics(WithSeqNum(pdf))
                   /\ shown' = IF shown[selected_player] = NoResult
                               THEN [shown EXCEPT ![selected_player] = Analytics(WithSeqNum(pdf))]
                               ELSE shown
                   /\ pc' = "done"
                   /\ UNCHANGED outcome
    /\ UNCHANGED <<source, raw, cache, widget, selected_player>>

\* the user picks a player (or reruns): the script runs again from the top,
\* load_data answers from its cache (lines 17, 77)
Rerun ==
    /\ \/ pc = "done"
       \/ pc = "stopped" /\ outcome = "InsufficientDataError"
    /\ \E p \in Range(PlayersOf(cache)) : widget' = p
    /\ df' = cache
    /\ selected_player' = None
    /\ player_df' = <<>>
    /\ result' = NoResult
    /\ outcome' = "none"
    /\ pc' = "select"
    /\ UNCHANGED <<source, raw, cache, shown>>

Next == LoadData \/ SelectPlayer \/ Analyze \/ Rerun

Spec == Init /\ [][Next]_vars

SpecLabel == InitLabel /\ [][Next]_vars

SpecStats == InitStats /\ [][Next]_vars

-----------------------------------------------------------------------------
(* Properties *)

\* load_data returned a record collection
Loaded ==
    /\ pc # "load"
    /\ outcome \notin {"SourceNotFoundError", "SourceParseError", "MalformedInputError"}

\* the script run ended, with a result or with the too-few-rounds warning
Analyzed == pc = "done" \/ (pc = "stopped" /\ outcome = "InsufficientDataError")

HasDigit(label) == \E i \in 1..Len(label) : label[i] \in Digits

DigitsOf(label) == SelectSeq(label, LAMBDA c : c \in Digits)

RecordsOf(p) == PlayerFilter(cache, p)

Leq(a, b) == a.n * b.d <= b.n * a.d

Eq(a, b) == a.n * b.d = b.n * a.d

Constant(s) == \A i, j \in 1..Len(s) : s[i] = s[j]

\* cells of the wide table that are non-numeric or in a row whose label has no digit
BadCells(t) ==
    { c \in (1..NumRows(t)) \X (1..NumPlayers(t)) :
        \/ ~t.rows[c[1]].cells[c[2]].isnum
        \/ ~HasDigit(t.rows[c[1]].label) }

\* C1: load_data yields exactly P x R records minus the cells that are
\* non-numeric or whose row's label has no digits.
C1_RecordCount ==
    Loaded => Len(cache) = NumPlayers(raw) * NumRows(raw) - Cardinality(BadCells(raw))

\* C2: a table with fewer than two columns, or without rows, makes load_data
\* end in the MalformedInputError outcome, with no record collection.
C2_MalformedInput ==
    (pc # "load" /\ source \in {"excel", "csv"} /\ (raw.ncols < 2 \/ NumRows(raw) = 0))
        => (outcome = "MalformedInputError" /\ pc = "stopped")

\* C3: a selected player with 0 or 1 records ends in InsufficientDataError with
\* no result; a player with 2 or more records always gets a result.
C3_MinimumData ==
    Analyzed =>
        LET n == Len(RecordsOf(selected_player))
        IN  /\ n < 2 => (pc = "stopped" /\ outcome = "InsufficientDataError" /\ result = NoResult)
            /\ n >= 2 => (pc = "done" /\ outcome = "none" /\ result # NoResult
                          /\ result.total_rounds = n)

C3_Witness ==
    /\ pc = "stopped"
    /\ outcome = "InsufficientDataError"
    /\ Len(RecordsOf(selected_player)) = 1

\* C4: in the collection load_data returns, each player's Round_Num sequence is
\* non-decreasing, and every record has an integer Round_Num and a numeric Score.
C4_SortInvariant ==
    Loaded =>
        /\ \A p \in Range(PlayerNames) :
               LET recs == RecordsOf(p)
               IN  \A i, j \in 1..Len(recs) : i < j => recs[i].Round_Num <= recs[j].Round_Num
        /\ \A k \in 1..Len(cache) : cache[k].Round_Num \in Nat /\ cache[k].Score \in Nat

\* the table lists round 3 above round 1 and a player has a record of each
C4_Witness ==
    /\ Loaded
    /\ NumRows(raw) >= 2
    /\ raw.rows[1].label = <<"3", HOE>>
    /\ raw.rows[2].label = <<"1", HOE>>
    /\ \E p \in Range(PlayerNames) : Len(RecordsOf(p)) >= 2

\* C5: the Seq_Num values of the analysed player are exactly 1..N, in the order
\* of the sorted records; duplicate rounds are all kept, gaps leave no gap.
C5_SequenceIndex ==
    pc = "done" =>
        LET recs == RecordsOf(selected_player)
        IN  /\ Len(player_df) = Len(recs)
            /\ Len(recs) >= 2
            /\ \A k \in 1..Len(recs) :
                   /\ player_df[k].Seq_Num = k
                   /\ player_df[k].idx = recs[k].idx
                   /\ player_df[k].Round_Num = recs[k].Round_Num

\* a player analysed with a duplicated round number; the rounds 1 and 3 leave a gap
C5_Witness ==
    /\ pc = "done"
    /\ \E i, j \in 1..Len(player_df) :
           i < j /\ player_df[i].Round_Num = player_df[j].Round_Num

\* C6 as stated: the best-5 average is at most the average, and equals it only
\* when N <= 5.
C6_EqualOnlyUpToFive ==
    pc = "done" =>
        /\ Leq(result.handicap_score_calc, result.avg_score)
        /\ Eq(result.handicap_score_calc, result.avg_score) => result.total_rounds <= 5

\* C6 (amended): the best-5 average is at most the average, and the two are
\* equal exactly when N <= 5 or all the scores are equal.
C6_HandicapBound ==
    pc = "done" =>
        /\ Leq(result.handicap_score_calc, result.avg_score)
        /\ Eq(result.handicap_score_calc, result.avg_score)
               <=> (result.total_rounds <= 5 \/ Constant(ScoresOf(player_df)))

C6_Witness ==
    /\ pc = "done"
    /\ result.total_rounds >= 6
    /\ ~Eq(result.handicap_score_calc, result.avg_score)

\* C7: constant scores give slope 0, r_squared 0 (a defined value) and
\* average = minimum = maximum.
C7_ConstantScores ==
    (pc = "done" /\ Constant(ScoresOf(player_df))) =>
        /\ result.slope.d # 0 /\ result.slope.n = 0
        /\ result.r_squared.d # 0 /\ result.r_squared.n = 0
        /\ result.avg_score.n = result.min_score * result.avg_score.d
        /\ result.min_score = result.max_score

C7_Witness ==
    /\ pc = "done"
    /\ Constant(ScoresOf(player_df))
    /\ result.total_rounds >= 3

\* C8: analysing leaves the cached record collection as load_data returned it,
\* and a player's result is the one first shown for that player, whatever was
\* analysed in between.
C8_AnalyzePure ==
    /\ (Loaded /\ pc # "load") => df = cache
    /\ pc = "done" => result = shown[selected_player]

\* a player analysed after another player was analysed
C8_Witness ==
    /\ pc = "done"
    /\ \E q \in Range(PlayerNames) : q # selected_player /\ shown[q] # NoResult

\* C9: every label holding a digit yields a record whose Round_Num is the
\* integer formed by the label's digits.
C9_DigitsOfLabel ==
    (Loaded /\ NumRows(raw) = 1 /\ NumPlayers(raw) = 1 /\ HasDigit(raw.rows[1].label)) =>
        /\ Len(cache) = 1
        /\ cache[1].Round_Num = DigitsValue(DigitsOf(raw.rows[1].label))

\* C10: records of equal Round_Num keep the order in which the melt emitted them.
C10_StableSort ==
    Loaded =>
        \A i, j \in 1..Len(cache) :
            (i < j /\ cache[i].Round_Num = cache[j].Round_Num) => cache[i].idx < cache[j].idx

====
